---- MODULE Spec2Model ----
(***************************************************************************)
(* Model of libkbfs/key_bundle.go: the TLF key bundle (writer and reader   *)
(* per-user bundles, the ephemeral public key list), the provisioning      *)
(* routine fillInDevices / fillInDevicesAndServerMap / fillInDeviceInfo    *)
(* and the lookup accessors.                                               *)
(*                                                                         *)
(* Go maps are functions whose DOMAIN is the set of keys present.  Go      *)
(* slices are sequences; a Go index n is position n + 1 of the sequence.   *)
(* The range loop over a Go map visits the keys in an order the runtime    *)
(* chooses, so the model takes the users of a list in any order.           *)
(***************************************************************************)
EXTENDS Integers, Sequences, FiniteSets, TLC

\* ------------------------------------------------------------------ bounds

\* Number of fillInDevices calls made on the bundle.
MaxCalls == 2

\* Longest device list given for one user.
MaxLen == 2

\* Most device names the calls give in all, over their writer and reader lists.
MaxNamed == 3

\* Most user entries in one call, over its writer and reader lists.
MaxUsers == 2

\* Server halves and symmetric keys are the numbers 0..MaxHalf.
MaxHalf == 1

Users == {"u1", "u2"}

KIDs == {"d1", "d2"}

Halves == 0..MaxHalf

\* ------------------------------------------------------------- Go values

\* A Go map with no entries.
EmptyMap == [x \in {} |-> x]

\* m[k] = v on a Go map.
MapPut(m, k, v) == [x \in DOMAIN m \cup {k} |-> IF x = k THEN v ELSE m[x]]

\* The values of a slice.
Range(s) == {s[n] : n \in 1..Len(s)}

\* A nil error.
NoErr == [type |-> "nil", user |-> "", kid |-> ""]

\* An error of the crypto capability.
CryptoErr(step) == [type |-> step, user |-> "", kid |-> ""]

\* The four fallible steps of provisioning one device.
CryptoSteps ==
  {"MakeRandomTLFCryptKeyServerHalf", "MaskTLFCryptKey",
   "EncryptTLFCryptKeyClientHalf", "GetTLFCryptKeyServerHalfID"}

\* TLFEphemeralPublicKeyNotFoundError{user, key}.
TLFEphemeralPublicKeyNotFoundError(user, key) ==
  [type |-> "TLFEphemeralPublicKeyNotFoundError", user |-> user, kid |-> key]

\* ------------------------------------------------- the crypto capability

\* Bitwise exclusive or of two naturals.
RECURSIVE Xor(_, _)
Xor(a, b) ==
  IF a = 0 THEN b
  ELSE IF b = 0 THEN a
  ELSE (((a % 2) + (b % 2)) % 2) + (2 * Xor(a \div 2, b \div 2))

\* crypto.MaskTLFCryptKey: the client half of a server half and the key.
MaskTLFCryptKey(serverHalf, key) == Xor(serverHalf, key)

\* crypto.EncryptTLFCryptKeyClientHalf: a box only the device opens.
EncryptTLFCryptKeyClientHalf(ePrivKey, k, clientHalf) ==
  [by |-> ePrivKey[2], to |-> k, half |-> clientHalf]

\* What device k reads in a box, given the ephemeral public key.
DecryptTLFCryptKeyClientHalf(ePubKey, k, box) ==
  IF box.by = ePubKey[2] /\ box.to = k THEN box.half ELSE -1

\* crypto.GetTLFCryptKeyServerHalfID: a keyed hash, taken collision free.
GetTLFCryptKeyServerHalfID(uid, k, serverHalf) == <<uid, k, serverHalf>>

\* The n-th ephemeral key pair a caller generates.
EPubKeyOf(n) == <<"epub", n>>

EPrivKeyOf(n) == <<"epriv", n>>

\* ------------------------------------------------------------------ state

VARIABLES
  WKeys,                  \* TLFWriterKeyBundle.WKeys
  RKeys,                  \* TLFReaderKeyBundle.RKeys
  TLFPublicKey,           \* TLFWriterKeyBundle.TLFPublicKey
  TLFEphemeralPublicKeys, \* TLFWriterKeyBundle.TLFEphemeralPublicKeys
  pc,                     \* "idle", "users" (range over cryptKeys), "devices"
  phase,                  \* "w": the writers' pass, "r": the readers' pass
  wKeys, rKeys,           \* fillInDevices' lists
  ePubKey, ePrivKey,      \* fillInDevices' ephemeral key pair
  tlfCryptKey,            \* the folder's symmetric key
  newIndex,               \* fillInDevices' newIndex
  newServerKeys,          \* fillInDevices' newServerKeys
  todo,                   \* users the range loop has not visited yet
  u,                      \* the user fillInDeviceInfo runs for
  publicKeys,             \* fillInDeviceInfo's publicKeys
  i,                      \* position of the range loop in publicKeys
  serverMap,              \* fillInDeviceInfo's serverMap
  ret,                    \* what the last fillInDevices call returned
  calls,                  \* fillInDevices calls made so far
  named,                  \* device names the calls have given so far
  old,                    \* the bundle when the current (or last) call began
  cryptoFor,              \* <<phase, user, device>> the call asked crypto for
  returned,               \* <<user, device, server half>> the calls returned
  heap,                   \* the objects behind the pointers, maps and slices
  orig,                   \* a folder's key generations
  copy,                   \* the DeepCopy taken of orig, once copied
  copied,                 \* a DeepCopy has been taken
  copiedFrom,             \* the generations of orig that copy's were copied from
  via,                    \* the key generations the last write went through
  writes                  \* writes made so far

vars ==
  <<WKeys, RKeys, TLFPublicKey, TLFEphemeralPublicKeys, pc, phase, wKeys,
    rKeys, ePubKey, ePrivKey, tlfCryptKey, newIndex, newServerKeys, todo, u,
    publicKeys, i, serverMap, ret, calls, named, old, cryptoFor, returned,
    heap, orig, copy, copied, copiedFrom, via, writes>>

bundle == <<WKeys, RKeys, TLFPublicKey, TLFEphemeralPublicKeys>>

args == <<wKeys, rKeys, ePubKey, ePrivKey, tlfCryptKey, named>>

generations == <<heap, orig, copy, copied, copiedFrom, via, writes>>

\* The zero TLFCryptKeyInfo.
ZeroInfo ==
  [ClientHalf |-> [by |-> 0, to |-> "", half |-> 0],
   ServerHalfID |-> <<"", "", 0>>,
   EPubKeyIndex |-> 0]

\* The zero TLFEphemeralPublicKey.
ZeroEPubKey == EPubKeyOf(0)

\* The device lists a caller may give for one user.
Lists == UNION {[1..n -> KIDs] : n \in 0..MaxLen}

\* The maps from users to device lists a caller may give.
KeyLists == UNION {[us -> Lists] : us \in SUBSET Users}

RECURSIVE NamedIn(_, _)
NamedIn(m, us) ==
  IF us = {} THEN 0
  ELSE LET x == CHOOSE y \in us : TRUE
       IN Len(m[x]) + NamedIn(m, us \ {x})

\* How many device names a map of lists holds.
Named(m) == NamedIn(m, DOMAIN m)

\* The writer and reader lists a caller may give in one call.
CallInputs ==
  {in \in KeyLists \X KeyLists :
     /\ Cardinality(DOMAIN in[1]) + Cardinality(DOMAIN in[2]) <= MaxUsers
     /\ Named(in[1]) + Named(in[2]) <= MaxNamed}

\* The map the current pass fills: cryptBundles of fillInDevicesAndServerMap.
cryptBundles == IF phase = "w" THEN WKeys ELSE RKeys

\* The lists the current pass reads: cryptKeys of fillInDevicesAndServerMap.
cryptKeys == IF phase = "w" THEN wKeys ELSE rKeys

\* ------------------------------------------------------------ operations

\* NewTLFKeyBundle: empty writer and reader maps, no ephemeral key.  The
\* folder's symmetric key is the caller's, one per generation.
Init ==
  /\ WKeys = EmptyMap
  /\ RKeys = EmptyMap
  /\ TLFPublicKey = "zero"
  /\ TLFEphemeralPublicKeys = <<>>
  /\ pc = "idle"
  /\ phase = "w"
  /\ wKeys = EmptyMap
  /\ rKeys = EmptyMap
  /\ ePubKey = ZeroEPubKey
  /\ ePrivKey = EPrivKeyOf(0)
  /\ tlfCryptKey \in Halves
  /\ newIndex = 0
  /\ newServerKeys = EmptyMap
  /\ todo = {}
  /\ u = ""
  /\ publicKeys = <<>>
  /\ i = 1
  /\ serverMap = EmptyMap
  /\ ret = [keys |-> EmptyMap, isNil |-> TRUE, err |-> NoErr]
  /\ calls = 0
  /\ named = 0
  /\ old = [W |-> EmptyMap, R |-> EmptyMap, E |-> <<>>]
  /\ cryptoFor = {}
  /\ returned = {}
  /\ heap = <<>>
  /\ orig = [W |-> <<>>, R |-> <<>>]
  /\ copy = [W |-> <<>>, R |-> <<>>]
  /\ copied = FALSE
  /\ copiedFrom = <<>>
  /\ via = "none"
  /\ writes = 0

\* NewIndex taken as the length after the append: one past the new key.
NewIndex_LenAfterAppend(ePubKeys) == Len(ePubKeys)

\* len(tkb.TLFEphemeralPublicKeys) - 1 after the append.
NewIndex(ePubKeys) == Len(ePubKeys) - 1

\* AppendEPubKey putting the new key in front of the list.
AppendEPubKey_InFront(ePubKeys, key) == <<key>> \o ePubKeys

\* append(tkb.TLFEphemeralPublicKeys, ePubKey)
AppendEPubKey(ePubKeys, key) == Append(ePubKeys, key)

\* fillInDevices up to its first fillInDevicesAndServerMap call: append the
\* ephemeral public key, take its index, start the writers' pass.
FillInDevices(w, r) ==
  /\ pc = "idle"
  /\ calls < MaxCalls
  /\ named + Named(w) + Named(r) <= MaxNamed
  /\ calls' = calls + 1
  /\ named' = named + Named(w) + Named(r)
  /\ wKeys' = w
  /\ rKeys' = r
  /\ ePubKey' = EPubKeyOf(calls + 1)
  /\ ePrivKey' = EPrivKeyOf(calls + 1)
  /\ TLFEphemeralPublicKeys' = AppendEPubKey(TLFEphemeralPublicKeys, ePubKey')
  /\ newIndex' = NewIndex(TLFEphemeralPublicKeys')
  /\ newServerKeys' = EmptyMap
  /\ phase' = "w"
  /\ todo' = DOMAIN w
  /\ pc' = "users"
  /\ ret' = [keys |-> EmptyMap, isNil |-> TRUE, err |-> NoErr]
  /\ old' = [W |-> WKeys, R |-> RKeys, E |-> TLFEphemeralPublicKeys]
  /\ cryptoFor' = {}
  /\ u' = ""
  /\ publicKeys' = <<>>
  /\ i' = 1
  /\ serverMap' = EmptyMap
  /\ UNCHANGED <<WKeys, RKeys, TLFPublicKey, tlfCryptKey, returned,
                 generations>>

\* cryptBundles with a bundle for user x, an empty one if it had none.
EnsureBundle(bundles, x) ==
  IF x \in DOMAIN bundles THEN bundles ELSE MapPut(bundles, x, EmptyMap)

\* One turn of the range loop of fillInDevicesAndServerMap up to the call of
\* fillInDeviceInfo, and that call's first line.
NextUser ==
  /\ pc = "users"
  /\ \E x \in todo :
       /\ todo' = todo \ {x}
       /\ u' = x
       /\ publicKeys' = cryptKeys[x]
       /\ IF phase = "w"
            THEN WKeys' = EnsureBundle(WKeys, x) /\ UNCHANGED RKeys
            ELSE RKeys' = EnsureBundle(RKeys, x) /\ UNCHANGED WKeys
  /\ i' = 1
  /\ serverMap' = EmptyMap
  /\ pc' = "devices"
  /\ UNCHANGED <<returned, generations, TLFPublicKey, TLFEphemeralPublicKeys, phase, args, newIndex,
                 newServerKeys, ret, calls, old, cryptoFor>>

\* HasEntry without the check for an existing entry: no device is skipped.
HasEntry_Never(uckb, k) == FALSE

\* _, ok := uckb[k.KID]
HasEntry(uckb, k) == k \in DOMAIN uckb

\* fillInDeviceInfo, a device that has an entry: skipped.
DeviceSkip ==
  /\ pc = "devices"
  /\ i <= Len(publicKeys)
  /\ HasEntry(cryptBundles[u], publicKeys[i])
  /\ i' = i + 1
  /\ UNCHANGED <<returned, generations, bundle, pc, phase, args, newIndex, newServerKeys, todo, u,
                 publicKeys, serverMap, ret, calls, old, cryptoFor>>

\* NewKeyInfo encrypting the server half itself, the masking step left out.
NewKeyInfo_Unmasked(uid, k, serverHalf) ==
  [ClientHalf |-> EncryptTLFCryptKeyClientHalf(ePrivKey, k, serverHalf),
   ServerHalfID |-> GetTLFCryptKeyServerHalfID(uid, k, serverHalf),
   EPubKeyIndex |-> newIndex]

\* The TLFCryptKeyInfo fillInDeviceInfo stores for device k.
NewKeyInfo(uid, k, serverHalf) ==
  [ClientHalf |->
     EncryptTLFCryptKeyClientHalf(ePrivKey, k,
                                  MaskTLFCryptKey(serverHalf, tlfCryptKey)),
   ServerHalfID |-> GetTLFCryptKeyServerHalfID(uid, k, serverHalf),
   EPubKeyIndex |-> newIndex]

\* fillInDeviceInfo, a device with no entry, every crypto step succeeding.
DeviceProvision ==
  /\ pc = "devices"
  /\ i <= Len(publicKeys)
  /\ ~HasEntry(cryptBundles[u], publicKeys[i])
  /\ \E serverHalf \in Halves :
       LET k == publicKeys[i]
           uckb == MapPut(cryptBundles[u], k, NewKeyInfo(u, k, serverHalf))
       IN /\ IF phase = "w"
               THEN WKeys' = MapPut(WKeys, u, uckb) /\ UNCHANGED RKeys
               ELSE RKeys' = MapPut(RKeys, u, uckb) /\ UNCHANGED WKeys
          /\ serverMap' = MapPut(serverMap, k, serverHalf)
          /\ cryptoFor' = cryptoFor \cup {<<phase, u, k>>}
  /\ i' = i + 1
  /\ UNCHANGED <<returned, generations, TLFPublicKey, TLFEphemeralPublicKeys, pc, phase, args,
                 newIndex, newServerKeys, todo, u, publicKeys, ret, calls,
                 old>>

\* ErrorReturn handing back the server halves gathered so far with the error.
ErrorReturn_KeepsMap(err) ==
  [keys |-> newServerKeys, isNil |-> FALSE, err |-> err]

\* return nil, err: of fillInDeviceInfo, passed on unchanged by
\* fillInDevicesAndServerMap and by fillInDevices.
ErrorReturn(err) == [keys |-> EmptyMap, isNil |-> TRUE, err |-> err]

\* fillInDeviceInfo, a device with no entry, a crypto step failing: the
\* error goes up through fillInDevicesAndServerMap and fillInDevices.
DeviceFail ==
  /\ pc = "devices"
  /\ i <= Len(publicKeys)
  /\ ~HasEntry(cryptBundles[u], publicKeys[i])
  /\ \E step \in CryptoSteps : ret' = ErrorReturn(CryptoErr(step))
  /\ cryptoFor' = cryptoFor \cup {<<phase, u, publicKeys[i]>>}
  /\ pc' = "idle"
  /\ UNCHANGED <<returned, generations, bundle, phase, args, newIndex, newServerKeys, todo, u,
                 publicKeys, i, serverMap, calls, old>>

\* CollectServerMap without the len(serverMap) > 0 test.
CollectServerMap_Always(keys, uid, m) == MapPut(keys, uid, m)

\* if len(serverMap) > 0 { newServerKeys[u] = serverMap }
CollectServerMap(keys, uid, m) ==
  IF m # EmptyMap THEN MapPut(keys, uid, m) ELSE keys

\* fillInDeviceInfo returns its serverMap; fillInDevicesAndServerMap keeps
\* it if it is not empty and goes on with the next user.
EndUser ==
  /\ pc = "devices"
  /\ i > Len(publicKeys)
  /\ newServerKeys' = CollectServerMap(newServerKeys, u, serverMap)
  /\ pc' = "users"
  /\ UNCHANGED <<returned, generations, bundle, phase, args, newIndex, todo, u, publicKeys, i,
                 serverMap, ret, calls, old, cryptoFor>>

\* The writers' pass returns nil; fillInDevices starts the readers' pass.
EndWriters ==
  /\ pc = "users"
  /\ todo = {}
  /\ phase = "w"
  /\ phase' = "r"
  /\ todo' = DOMAIN rKeys
  /\ UNCHANGED <<returned, generations, bundle, pc, args, newIndex, newServerKeys, u, publicKeys, i,
                 serverMap, ret, calls, old, cryptoFor>>

\* What a returned serverKeyMap gives the caller: the server half of each
\* (user, device) in it.
ServerHalves(keys) ==
  UNION {{<<x, k, keys[x][k]>> : k \in DOMAIN keys[x]} : x \in DOMAIN keys}

\* The readers' pass returns nil; fillInDevices returns newServerKeys, nil.
Return ==
  /\ pc = "users"
  /\ todo = {}
  /\ phase = "r"
  /\ ret' = [keys |-> newServerKeys, isNil |-> FALSE, err |-> NoErr]
  /\ returned' = returned \cup ServerHalves(newServerKeys)
  /\ pc' = "idle"
  /\ UNCHANGED <<generations, bundle, phase, args, newIndex, newServerKeys, todo, u,
                 publicKeys, i, serverMap, calls, old, cryptoFor>>

Call == \E in \in CallInputs : FillInDevices(in[1], in[2])

Next ==
  \/ Call
  \/ NextUser
  \/ DeviceSkip
  \/ DeviceProvision
  \/ DeviceFail
  \/ EndUser
  \/ EndWriters
  \/ Return

Spec == Init /\ [][Next]_vars

\* ---------------------------------------------------------------- lookups

\* info, ok := uckb[key]: the zero TLFCryptKeyInfo when the key is absent.
MapGet(uckb, key) ==
  IF key \in DOMAIN uckb
    THEN [info |-> uckb[key], ok |-> TRUE, err |-> NoErr]
    ELSE [info |-> ZeroInfo, ok |-> FALSE, err |-> NoErr]

\* The TLFKeyBundle the folder holds now, as the lookups' receiver.
tkb == [W |-> WKeys, R |-> RKeys, E |-> TLFEphemeralPublicKeys]

\* TLFKeyBundle.GetTLFCryptKeyInfo on receiver b: the user's writer bundle if
\* the user has one, else the user's reader bundle if the user has one.
GetTLFCryptKeyInfoOf(b, user, key) ==
  IF user \in DOMAIN b.W THEN MapGet(b.W[user], key)
  ELSE IF user \in DOMAIN b.R THEN MapGet(b.R[user], key)
  ELSE [info |-> ZeroInfo, ok |-> FALSE, err |-> NoErr]

\* TLFKeyBundle.GetTLFCryptKeyInfo on the folder's bundle.
GetTLFCryptKeyInfo(user, key) == GetTLFCryptKeyInfoOf(tkb, user, key)

\* tkb.TLFEphemeralPublicKeys[index]: Go panics when the index is out of range.
EPubKeyAt(index) ==
  IF index + 1 \in DOMAIN TLFEphemeralPublicKeys
    THEN [key |-> TLFEphemeralPublicKeys[index + 1], err |-> NoErr]
    ELSE [key |-> ZeroEPubKey,
          err |-> [type |-> "panic: index out of range", user |-> "",
                   kid |-> ""]]

\* GetTLFEphemeralPublicKey reading the newest ephemeral key, not the one at
\* the record's index.
GetTLFEphemeralPublicKey_Newest(user, key) ==
  LET r == GetTLFCryptKeyInfo(user, key)
  IN IF r.err # NoErr THEN [key |-> ZeroEPubKey, err |-> r.err]
     ELSE IF ~r.ok
       THEN [key |-> ZeroEPubKey,
             err |-> TLFEphemeralPublicKeyNotFoundError(user, key)]
     ELSE EPubKeyAt(Len(TLFEphemeralPublicKeys) - 1)

\* TLFKeyBundle.GetTLFEphemeralPublicKey.
GetTLFEphemeralPublicKey(user, key) ==
  LET r == GetTLFCryptKeyInfo(user, key)
  IN IF r.err # NoErr THEN [key |-> ZeroEPubKey, err |-> r.err]
     ELSE IF ~r.ok
       THEN [key |-> ZeroEPubKey,
             err |-> TLFEphemeralPublicKeyNotFoundError(user, key)]
     ELSE EPubKeyAt(r.info.EPubKeyIndex)

\* UserCryptKeyBundle.GetKIDs: the keys of the map, each once, in the order
\* the runtime's range loop takes them: the slices the call may return (the
\* nil slice, <<>>, for a map with no keys).
GetKIDs(uckb) ==
  {s \in [1..Cardinality(DOMAIN uckb) -> DOMAIN uckb] :
     Range(s) = DOMAIN uckb}

\* GetTLFCryptPublicKeys looking in the reader bundle first.
GetTLFCryptPublicKeysOf_ReaderFirst(b, user) ==
  IF user \in DOMAIN b.R THEN [kids |-> GetKIDs(b.R[user]), ok |-> TRUE]
  ELSE IF user \in DOMAIN b.W
    THEN [kids |-> GetKIDs(b.W[user]), ok |-> TRUE]
  ELSE [kids |-> {<<>>}, ok |-> FALSE]

\* TLFKeyBundle.GetTLFCryptPublicKeys on receiver b: kids are the slices it
\* may return.
GetTLFCryptPublicKeysOf(b, user) ==
  IF user \in DOMAIN b.W THEN [kids |-> GetKIDs(b.W[user]), ok |-> TRUE]
  ELSE IF user \in DOMAIN b.R
    THEN [kids |-> GetKIDs(b.R[user]), ok |-> TRUE]
  ELSE [kids |-> {<<>>}, ok |-> FALSE]

\* TLFKeyBundle.GetTLFCryptPublicKeys on the folder's bundle.
GetTLFCryptPublicKeys(user) == GetTLFCryptPublicKeysOf(tkb, user)

\* _, ok := keys[user][deviceKID]: indexing a missing user gives a nil map.
HasKey(keys, user, deviceKID) ==
  user \in DOMAIN keys /\ deviceKID \in DOMAIN keys[user]

\* TLFWriterKeyBundle.IsWriter.
IsWriter(user, deviceKID) == HasKey(WKeys, user, deviceKID)

\* TLFReaderKeyBundle.IsReader.
IsReader(user, deviceKID) == HasKey(RKeys, user, deviceKID)

\* ------------------------------------------------ generations and copies

\* Key generations a history may hold, and writes made through histories.
MaxGens == 2
MaxWrites == 3

\* Everything but the key generations.
folder ==
  <<WKeys, RKeys, TLFPublicKey, TLFEphemeralPublicKeys, pc, phase, wKeys,
    rKeys, ePubKey, ePrivKey, tlfCryptKey, newIndex, newServerKeys, todo, u,
    publicKeys, i, serverMap, ret, calls, named, old, cryptoFor, returned>>

\* The address the next object put in heap h gets.
New(h) == Len(h) + 1

\* EncryptedTLFCryptKeyClientHalf.DeepCopy: an equal value.
ClientHalfDeepCopy(clientHalf) == clientHalf

\* TLFCryptKeyServerHalfID.DeepCopy: an equal value.
ServerHalfIDDeepCopy(id) == id

\* TLFPublicKey.DeepCopy: an equal value.
TLFPublicKeyDeepCopy(key) == key

\* TLFEphemeralPublicKeys.DeepCopy: a new slice holding the same keys.
TLFEphemeralPublicKeysDeepCopy(keys) == [j \in 1..Len(keys) |-> keys[j]]

\* TLFCryptKeyInfo.DeepCopy.
InfoDeepCopy(info) ==
  [ClientHalf |-> ClientHalfDeepCopy(info.ClientHalf),
   ServerHalfID |-> ServerHalfIDDeepCopy(info.ServerHalfID),
   EPubKeyIndex |-> info.EPubKeyIndex]

\* UserCryptKeyBundle.DeepCopy of the map at address a: a new map.
UserCryptKeyBundleDeepCopy(h, a) ==
  [h |-> Append(h, [m |-> [k \in DOMAIN h[a].m |-> InfoDeepCopy(h[a].m[k])]]),
   a |-> New(h)]

\* TLFKeyMap.DeepCopy's range loop over the users left: keys[u] = m.DeepCopy().
RECURSIVE CopyBundles(_, _, _, _)
CopyBundles(h, tkm, users, keys) ==
  IF users = {} THEN [h |-> h, keys |-> keys]
  ELSE LET x == CHOOSE y \in users : TRUE
           c == UserCryptKeyBundleDeepCopy(h, tkm[x])
       IN CopyBundles(c.h, tkm, users \ {x}, MapPut(keys, x, c.a))

\* TLFKeyMap.DeepCopy copying the map of users only: keys[u] = m.
TLFKeyMapDeepCopy_Shallow(h, a) ==
  [h |-> Append(h, [m |-> h[a].m]), a |-> New(h)]

\* TLFKeyMap.DeepCopy of the map at address a.
TLFKeyMapDeepCopy(h, a) ==
  LET c == CopyBundles(h, h[a].m, DOMAIN h[a].m, EmptyMap)
  IN [h |-> Append(c.h, [m |-> c.keys]), a |-> New(c.h)]

\* TLFReaderKeyBundle.DeepCopy of the struct at address a.
TLFReaderKeyBundleDeepCopy(h, a) ==
  LET c == TLFKeyMapDeepCopy(h, h[a].RKeys)
  IN [h |-> Append(c.h, [RKeys |-> c.a]), a |-> New(c.h)]

\* TLFWriterKeyBundle.DeepCopy of the struct at address a.
TLFWriterKeyBundleDeepCopy(h, a) ==
  LET c == TLFKeyMapDeepCopy(h, h[a].WKeys)
  IN [h |-> Append(c.h,
                   [WKeys |-> c.a,
                    TLFPublicKey |-> TLFPublicKeyDeepCopy(h[a].TLFPublicKey),
                    TLFEphemeralPublicKeys |->
                      TLFEphemeralPublicKeysDeepCopy(
                        h[a].TLFEphemeralPublicKeys)]),
      a |-> New(c.h)]

\* TLFKeyBundle.DeepCopy of the pair of pointers b.
TLFKeyBundleDeepCopy(h, b) ==
  LET w == TLFWriterKeyBundleDeepCopy(h, b.W)
      r == TLFReaderKeyBundleDeepCopy(w.h, b.R)
  IN [h |-> r.h, b |-> [W |-> w.a, R |-> r.a]]

\* TLFWriterKeyGenerations.DeepCopy's loop from position j on.
RECURSIVE CopyWriterBundles(_, _, _, _)
CopyWriterBundles(h, tkg, j, keys) ==
  IF j > Len(tkg) THEN [h |-> h, keys |-> keys]
  ELSE LET c == TLFWriterKeyBundleDeepCopy(h, tkg[j])
       IN CopyWriterBundles(c.h, tkg, j + 1, Append(keys, c.a))

\* TLFWriterKeyGenerations.DeepCopy.
TLFWriterKeyGenerationsDeepCopy(h, tkg) == CopyWriterBundles(h, tkg, 1, <<>>)

\* TLFReaderKeyGenerations.DeepCopy's loop from position j on.
RECURSIVE CopyReaderBundles(_, _, _, _)
CopyReaderBundles(h, trg, j, keys) ==
  IF j > Len(trg) THEN [h |-> h, keys |-> keys]
  ELSE LET c == TLFReaderKeyBundleDeepCopy(h, trg[j])
       IN CopyReaderBundles(c.h, trg, j + 1, Append(keys, c.a))

\* TLFReaderKeyGenerations.DeepCopy.
TLFReaderKeyGenerationsDeepCopy(h, trg) == CopyReaderBundles(h, trg, 1, <<>>)

\* NewTLFKeyBundle: two new structs, each with a new empty map.
NewTLFKeyBundle(h) ==
  LET h1 == Append(h, [m |-> EmptyMap])
      h2 == Append(h1, [WKeys |-> Len(h1), TLFPublicKey |-> "zero",
                        TLFEphemeralPublicKeys |-> <<>>])
      h3 == Append(h2, [m |-> EmptyMap])
      h4 == Append(h3, [RKeys |-> Len(h3)])
  IN [h |-> h4, b |-> [W |-> Len(h2), R |-> Len(h4)]]

\* The histories that can be written through.
Roots == IF copied THEN {"orig", "copy"} ELSE {"orig"}

\* The histories named r.
Root(r) == IF r = "orig" THEN orig ELSE copy

\* Generation g's TLFKeyMap on one side, as an address.
KeyMapAt(h, root, g, side) ==
  IF side = "w" THEN h[root.W[g]].WKeys ELSE h[root.R[g]].RKeys

\* The content of the TLFKeyMap at address a: its users' maps.
KeysOf(h, a) == [x \in DOMAIN h[a].m |-> h[h[a].m[x]].m]

\* The caller appends a new bundle to both histories of r.
AppendGeneration(r) ==
  /\ Len(Root(r).W) < MaxGens
  /\ LET n == NewTLFKeyBundle(heap)
         root == [W |-> Append(Root(r).W, n.b.W),
                  R |-> Append(Root(r).R, n.b.R)]
     IN /\ heap' = n.h
        /\ orig' = IF r = "orig" THEN root ELSE orig
        /\ copy' = IF r = "copy" THEN root ELSE copy
  /\ via' = r
  /\ UNCHANGED <<folder, copied, copiedFrom, writes>>

\* keys[u] = UserCryptKeyBundle{} for a user with no bundle, in generation g.
EnsureUserBundle(r, g, side, x) ==
  /\ writes < MaxWrites
  /\ g \in 1..Len(Root(r).W)
  /\ LET a == KeyMapAt(heap, Root(r), g, side)
     IN /\ x \notin DOMAIN heap[a].m
        /\ heap' = Append([heap EXCEPT ![a].m = MapPut(@, x, New(heap))],
                          [m |-> EmptyMap])
  /\ writes' = writes + 1
  /\ via' = r
  /\ UNCHANGED <<folder, orig, copy, copied, copiedFrom>>

\* uckb[k] = TLFCryptKeyInfo{...} for a device with no entry, in generation g.
PutKeyInfo(r, g, side, x, k) ==
  /\ writes < MaxWrites
  /\ g \in 1..Len(Root(r).W)
  /\ LET a == KeyMapAt(heap, Root(r), g, side)
     IN /\ x \in DOMAIN heap[a].m
        /\ k \notin DOMAIN heap[heap[a].m[x]].m
        /\ heap' = [heap EXCEPT ![heap[a].m[x]].m =
                                  MapPut(@, k, NewKeyInfo(x, k, 0))]
  /\ writes' = writes + 1
  /\ via' = r
  /\ UNCHANGED <<folder, orig, copy, copied, copiedFrom>>

\* tkb.TLFEphemeralPublicKeys = append(...) in generation g.
AppendKey(r, g) ==
  /\ writes < MaxWrites
  /\ g \in 1..Len(Root(r).W)
  /\ heap' = [heap EXCEPT ![Root(r).W[g]].TLFEphemeralPublicKeys =
                            AppendEPubKey(@, EPubKeyOf(Len(@) + 1))]
  /\ writes' = writes + 1
  /\ via' = r
  /\ UNCHANGED <<folder, orig, copy, copied, copiedFrom>>

\* copy = TLFKeyBundle{orig's generation g}.DeepCopy().
DeepCopyBundle(g) ==
  /\ ~copied
  /\ g \in 1..Len(orig.W)
  /\ LET c == TLFKeyBundleDeepCopy(heap, [W |-> orig.W[g], R |-> orig.R[g]])
     IN /\ heap' = c.h
        /\ copy' = [W |-> <<c.b.W>>, R |-> <<c.b.R>>]
  /\ copied' = TRUE
  /\ copiedFrom' = <<g>>
  /\ via' = "none"
  /\ UNCHANGED <<folder, orig, writes>>

\* copy = orig's two histories, each by its DeepCopy.
DeepCopyGenerations ==
  /\ ~copied
  /\ LET w == TLFWriterKeyGenerationsDeepCopy(heap, orig.W)
         r == TLFReaderKeyGenerationsDeepCopy(w.h, orig.R)
     IN /\ heap' = r.h
        /\ copy' = [W |-> w.keys, R |-> r.keys]
  /\ copied' = TRUE
  /\ copiedFrom' = [j \in 1..Len(orig.W) |-> j]
  /\ via' = "none"
  /\ UNCHANGED <<folder, orig, writes>>

Grow == \E r \in Roots : AppendGeneration(r)

Ensure ==
  \E r \in Roots, g \in 1..MaxGens, side \in {"w", "r"}, x \in Users :
    EnsureUserBundle(r, g, side, x)

Put ==
  \E r \in Roots, g \in 1..MaxGens, side \in {"w", "r"}, x \in Users,
     k \in KIDs :
    PutKeyInfo(r, g, side, x, k)

AddKey == \E r \in Roots, g \in 1..MaxGens : AppendKey(r, g)

CopyBundle == \E g \in 1..MaxGens : DeepCopyBundle(g)

NextGenerations ==
  \/ Grow
  \/ Ensure
  \/ Put
  \/ AddKey
  \/ CopyBundle
  \/ DeepCopyGenerations

SpecGenerations == Init /\ [][NextGenerations]_vars

\* TLFWriterKeyBundle.IsWriter of the struct at address a.
IsWriterAt(h, a, user, deviceKID) ==
  HasKey(KeysOf(h, h[a].WKeys), user, deviceKID)

\* TLFReaderKeyBundle.IsReader of the struct at address a.
IsReaderAt(h, a, user, deviceKID) ==
  HasKey(KeysOf(h, h[a].RKeys), user, deviceKID)

\* TLFWriterKeyGenerations.GetKeyGeneration.
WriterGetKeyGeneration(tkg) == Len(tkg)

\* TLFReaderKeyGenerations.GetKeyGeneration.
ReaderGetKeyGeneration(tkg) == Len(tkg)

\* TLFWriterKeyGenerations.IsWriter asking the first generation.
WriterGenerationsIsWriter_Oldest(h, tkg, user, deviceKID) ==
  LET keyGen == WriterGetKeyGeneration(tkg)
  IN IF keyGen < 1 THEN FALSE ELSE IsWriterAt(h, tkg[1], user, deviceKID)

\* TLFWriterKeyGenerations.IsWriter: Go's tkg[keyGen-1] is tkg[keyGen] here.
WriterGenerationsIsWriter(h, tkg, user, deviceKID) ==
  LET keyGen == WriterGetKeyGeneration(tkg)
  IN IF keyGen < 1 THEN FALSE ELSE IsWriterAt(h, tkg[keyGen], user, deviceKID)

\* TLFReaderKeyGenerations.IsReader.
ReaderGenerationsIsReader(h, tkg, user, deviceKID) ==
  LET keyGen == ReaderGetKeyGeneration(tkg)
  IN IF keyGen < 1 THEN FALSE ELSE IsReaderAt(h, tkg[keyGen], user, deviceKID)

\* ----------------------------------------------------------------- claims

\* The last fillInDevices call returned without error.
Succeeded == pc = "idle" /\ calls > 0 /\ ret.err = NoErr

\* The last fillInDevices call returned an error.
Failed == pc = "idle" /\ calls > 0 /\ ret.err # NoErr

\* The current (or last) call created the writer record of (x, k).
CreatedW(x, k) == HasKey(WKeys, x, k) /\ ~HasKey(old.W, x, k)

\* The current (or last) call created the reader record of (x, k).
CreatedR(x, k) == HasKey(RKeys, x, k) /\ ~HasKey(old.R, x, k)

\* The current (or last) call names device k in list m for user x.
NamedFor(m, x, k) == x \in DOMAIN m /\ k \in Range(m[x])

\* The bundle the current pass fills, as it was when the call began.
oldBundles == IF phase = "w" THEN old.W ELSE old.R

\* C1: while fillInDeviceInfo runs for user u, its serverMap holds a server
\* half S for exactly the devices it has newly provisioned (a device named
\* twice is provisioned once), and the stored record of each is consistent
\* with S: ClientHalf = Encrypt(ePrivKey, device, Mask(S, tlfCryptKey)),
\* ServerHalfID = ServerHalfID(u, device, S), EPubKeyIndex = the index passed
\* in; so Mask(S, decrypted client half) is the symmetric key.
C1_RecordMatchesServerHalf ==
  pc = "devices" =>
    \A k \in KIDs :
      /\ k \in DOMAIN serverMap <=>
           (HasKey(cryptBundles, u, k) /\ ~HasKey(oldBundles, u, k))
      /\ k \in DOMAIN serverMap =>
           LET info == cryptBundles[u][k]
               S == serverMap[k]
           IN /\ info.ClientHalf =
                   EncryptTLFCryptKeyClientHalf(
                     ePrivKey, k, MaskTLFCryptKey(S, tlfCryptKey))
              /\ info.ServerHalfID = GetTLFCryptKeyServerHalfID(u, k, S)
              /\ info.EPubKeyIndex = newIndex
              /\ MaskTLFCryptKey(
                   S, DecryptTLFCryptKeyClientHalf(ePubKey, k, info.ClientHalf))
                   = tlfCryptKey

\* C1's case: a list naming one device twice has been gone through, the
\* device provisioned, under a symmetric key that is not zero.
C1_Witness ==
  /\ pc = "devices"
  /\ Len(publicKeys) = 2
  /\ publicKeys[1] = publicKeys[2]
  /\ i = 3
  /\ publicKeys[1] \in DOMAIN serverMap
  /\ tlfCryptKey # 0

\* Device k of user x has a server half in the returned map.
InRet(x, k) == HasKey(ret.keys, x, k)

\* C2: after a successful fillInDevices the returned map holds a server half
\* for (user, device) exactly when the call created a writer or a reader
\* record for them, that server half is the one the created record's
\* ServerHalfID was computed from, and no user maps to an empty map.
C2_ResultIsExactlyCreated ==
  Succeeded =>
    /\ \A x \in Users, k \in KIDs :
         /\ InRet(x, k) <=> (CreatedW(x, k) \/ CreatedR(x, k))
         /\ (CreatedW(x, k) /\ InRet(x, k)) =>
              WKeys[x][k].ServerHalfID =
                GetTLFCryptKeyServerHalfID(x, k, ret.keys[x][k])
         /\ (CreatedR(x, k) /\ InRet(x, k)) =>
              RKeys[x][k].ServerHalfID =
                GetTLFCryptKeyServerHalfID(x, k, ret.keys[x][k])
    /\ \A x \in DOMAIN ret.keys : ret.keys[x] # EmptyMap

\* Every record of a per-user map indexes an ephemeral public key.
IndicesValid(keys) ==
  \A x \in DOMAIN keys : \A k \in DOMAIN keys[x] :
    /\ 0 <= keys[x][k].EPubKeyIndex
    /\ keys[x][k].EPubKeyIndex < Len(TLFEphemeralPublicKeys)

\* C3: in every state, between calls and at every step inside a call, every
\* writer and reader record has 0 <= EPubKeyIndex < len(TLFEphemeralPublicKeys),
\* and GetTLFEphemeralPublicKey never indexes out of range.
C3_IndexInRange ==
  /\ IndicesValid(WKeys)
  /\ IndicesValid(RKeys)
  /\ \A x \in Users, k \in KIDs :
       GetTLFEphemeralPublicKey(x, k).err.type # "panic: index out of range"

\* C3's case: inside a second call, right after a reader record was stored
\* with the new index, an older record still holding index 0.
C3_Witness ==
  /\ pc = "devices"
  /\ calls = 2
  /\ \E x \in Users, k \in KIDs :
       HasKey(RKeys, x, k) /\ RKeys[x][k].EPubKeyIndex = 1
  /\ \E x \in Users, k \in KIDs :
       HasKey(WKeys, x, k) /\ WKeys[x][k].EPubKeyIndex = 0

\* C4: after a successful fillInDevices, a device that had no record before
\* the call and is named in its writer or reader list is found by
\* GetTLFCryptKeyInfo, with the index of the key the call appended.
C4_NewDeviceFound ==
  Succeeded =>
    \A x \in Users, k \in KIDs :
      ( /\ ~HasKey(old.W, x, k)
        /\ ~HasKey(old.R, x, k)
        /\ (NamedFor(wKeys, x, k) \/ NamedFor(rKeys, x, k)) ) =>
        /\ GetTLFCryptKeyInfo(x, k).ok
        /\ GetTLFCryptKeyInfo(x, k).info.EPubKeyIndex = Len(old.E)

\* C5: between calls, GetTLFCryptKeyInfo returns the writer record when the
\* writer bundle has one for (user, device), else the reader record when the
\* reader bundle has one, and (zero, false) only when neither has; never an
\* error.
C5_FirstMatch ==
  pc = "idle" =>
    \A x \in Users, k \in KIDs :
      LET r == GetTLFCryptKeyInfo(x, k)
      IN /\ r.err = NoErr
         /\ IsWriter(x, k) => (r.ok /\ r.info = WKeys[x][k])
         /\ (~IsWriter(x, k) /\ IsReader(x, k)) =>
              (r.ok /\ r.info = RKeys[x][k])
         /\ (~IsWriter(x, k) /\ ~IsReader(x, k)) =>
              (~r.ok /\ r.info = ZeroInfo)

\* C6: after a successful fillInDevices that provisions device k1 as a writer
\* of x1 and another device k2 as a reader of x2 (x1 and x2 may be one user),
\* neither having had a record before: k1 is a writer and no reader, k2 is a
\* reader and no writer, and GetTLFEphemeralPublicKey returns the call's
\* ephemeral public key, without error, for both.
C6_WriterReaderIsolation ==
  Succeeded =>
    \A x1 \in Users, x2 \in Users, k1 \in KIDs, k2 \in KIDs :
      ( /\ k1 # k2
        /\ ~HasKey(old.W, x1, k1) /\ ~HasKey(old.R, x1, k1)
        /\ ~HasKey(old.W, x2, k2) /\ ~HasKey(old.R, x2, k2)
        /\ NamedFor(wKeys, x1, k1) /\ ~NamedFor(rKeys, x1, k1)
        /\ NamedFor(rKeys, x2, k2) /\ ~NamedFor(wKeys, x2, k2) ) =>
        /\ IsWriter(x1, k1) /\ ~IsReader(x1, k1)
        /\ IsReader(x2, k2) /\ ~IsWriter(x2, k2)
        /\ GetTLFEphemeralPublicKey(x1, k1) = [key |-> ePubKey, err |-> NoErr]
        /\ GetTLFEphemeralPublicKey(x2, k2) = [key |-> ePubKey, err |-> NoErr]

\* What one step keeps of a per-user map and what it may add to it: every
\* user entry and every record stays as it is, and a record is new only
\* inside a call, for a user and device of the given list.
KeptAndNamed(keys, keysNext, lists) ==
  /\ DOMAIN keys \subseteq DOMAIN keysNext
  /\ \A x \in DOMAIN keys :
       /\ DOMAIN keys[x] \subseteq DOMAIN keysNext[x]
       /\ \A k \in DOMAIN keys[x] : keysNext[x][k] = keys[x][k]
  /\ \A x \in DOMAIN keysNext : \A k \in DOMAIN keysNext[x] :
       ~HasKey(keys, x, k) => (pc = "devices" /\ NamedFor(lists, x, k))

\* C7: no step of any fillInDevices call, successful or failed, changes or
\* removes a record or a user entry of the writer or reader bundle, and a
\* record is created only for a (user, device) of the call's own list:
\* writer list into the writer bundle, reader list into the reader bundle.
C7_RecordsNeverChange ==
  [][/\ KeptAndNamed(WKeys, WKeys', wKeys)
     /\ KeptAndNamed(RKeys, RKeys', rKeys)
     /\ pc = "idle" => (WKeys' = WKeys /\ RKeys' = RKeys)]_vars

\* C7's case: a second call has added a record beside one the first call
\* made, in the same per-user bundle.
C7_Witness ==
  /\ calls = 2
  /\ \E x \in Users, k1 \in KIDs, k2 \in KIDs :
       /\ HasKey(old.W, x, k1)
       /\ CreatedW(x, k2)
       /\ WKeys[x][k1].EPubKeyIndex = 0
       /\ WKeys[x][k2].EPubKeyIndex = 1

\* Every user of the call's lists has a bundle, and every device of the
\* lists a record, in the writer map W and the reader map R.
Provisioned(W, R) ==
  /\ \A x \in DOMAIN wKeys :
       x \in DOMAIN W /\ Range(wKeys[x]) \subseteq DOMAIN W[x]
  /\ \A x \in DOMAIN rKeys :
       x \in DOMAIN R /\ Range(rKeys[x]) \subseteq DOMAIN R[x]

\* C8: a successful fillInDevices leaves every user and device of its lists
\* provisioned; and a call whose users and devices are all provisioned when
\* it begins (so any repeat of a successful call) creates no record, leaves
\* the writer and reader maps as they were, asks the crypto capability for
\* nothing, and returns an empty map without error.  In any call the crypto
\* capability is asked only for devices that had no record.
C8_Idempotent ==
  /\ Succeeded => Provisioned(WKeys, RKeys)
  /\ (calls > 0 /\ Provisioned(old.W, old.R)) =>
       /\ WKeys = old.W
       /\ RKeys = old.R
       /\ cryptoFor = {}
       /\ pc = "idle" =>
            ret = [keys |-> EmptyMap, isNil |-> FALSE, err |-> NoErr]
  /\ \A c \in cryptoFor :
       ~HasKey(IF c[1] = "w" THEN old.W ELSE old.R, c[2], c[3])

\* C8's case: a second call has returned, every device it names having had
\* its record before the call.
C8_Witness ==
  /\ calls = 2
  /\ pc = "idle"
  /\ Provisioned(old.W, old.R)
  /\ Named(wKeys) + Named(rKeys) >= 1
  /\ old.W # EmptyMap

\* C9: the step at which a crypto step fails for a device ends the call with
\* that error and a nil map, and rolls nothing back: the writer and reader
\* maps and the ephemeral key list stay as they are at that step, which is
\* the list before the call with the call's key appended and every record
\* the call made for earlier devices; the failing device has no record, and
\* no record is made after the call has ended.
C9_FailureKeepsPartialWork ==
  [][/\ (pc = "devices" /\ pc' = "idle") =>
          /\ ret'.isNil
          /\ ret'.keys = EmptyMap
          /\ ret'.err \in {CryptoErr(step) : step \in CryptoSteps}
          /\ WKeys' = WKeys
          /\ RKeys' = RKeys
          /\ TLFEphemeralPublicKeys' = Append(old.E, ePubKey)
          /\ \A c \in cryptoFor :
               HasKey(IF c[1] = "w" THEN WKeys' ELSE RKeys', c[2], c[3])
          /\ ~HasKey(IF phase = "w" THEN WKeys' ELSE RKeys', u, publicKeys[i])
     /\ (pc = "idle" /\ ret.err # NoErr) =>
          (WKeys' = WKeys /\ RKeys' = RKeys)]_vars

\* C9's case: a call failed in its readers' pass after it had made a writer
\* record and a reader record.
C9_Witness ==
  /\ Failed
  /\ phase = "r"
  /\ \E x \in Users, k \in KIDs : CreatedW(x, k)
  /\ \E x \in Users, k \in KIDs : CreatedR(x, k)

\* C10: GetTLFEphemeralPublicKey fails, with TLFEphemeralPublicKeyNotFoundError
\* of that user and device, exactly when GetTLFCryptKeyInfo finds no record,
\* and else returns the ephemeral public key at the record's index;
\* GetTLFCryptKeyInfo never returns an error, and GetTLFCryptPublicKeys
\* reports a user with no bundle through its boolean alone.
C10_NotFoundError ==
  \A x \in Users, k \in KIDs :
    LET r == GetTLFCryptKeyInfo(x, k)
        e == GetTLFEphemeralPublicKey(x, k)
    IN /\ r.err = NoErr
       /\ ~r.ok =>
            e = [key |-> ZeroEPubKey,
                 err |-> TLFEphemeralPublicKeyNotFoundError(x, k)]
       /\ r.ok =>
            /\ r.info.EPubKeyIndex + 1 \in DOMAIN TLFEphemeralPublicKeys
            /\ e = [key |-> TLFEphemeralPublicKeys[r.info.EPubKeyIndex + 1],
                    err |-> NoErr]
       /\ GetTLFCryptPublicKeys(x).ok <=>
            (x \in DOMAIN WKeys \/ x \in DOMAIN RKeys)

\* C10's case: between calls, one device is found with index 0 while two
\* ephemeral keys are listed, and another device of the same user is not
\* found.
C10_Witness ==
  /\ pc = "idle"
  /\ Len(TLFEphemeralPublicKeys) = 2
  /\ \E x \in Users, k1 \in KIDs, k2 \in KIDs :
       /\ GetTLFCryptKeyInfo(x, k1).ok
       /\ GetTLFCryptKeyInfo(x, k1).info.EPubKeyIndex = 0
       /\ ~GetTLFCryptKeyInfo(x, k2).ok

\* C11: every fillInDevices call, whatever it provisions and whether or not
\* it fails later, makes the ephemeral public key list its previous value
\* followed by the call's key, the new index being the previous length; no
\* other step touches the list, so no position is changed, reordered or
\* reused; and no step changes TLFPublicKey.
C11_EphemeralKeysAppendOnly ==
  [][/\ calls' = calls + 1 =>
          /\ TLFEphemeralPublicKeys' = Append(TLFEphemeralPublicKeys, ePubKey')
          /\ newIndex' = Len(TLFEphemeralPublicKeys)
     /\ calls' = calls => TLFEphemeralPublicKeys' = TLFEphemeralPublicKeys
     /\ calls' \in {calls, calls + 1}
     /\ Len(TLFEphemeralPublicKeys') = calls'
     /\ TLFPublicKey' = TLFPublicKey]_vars

\* C11's case: a second call that provisions nothing has failed or returned,
\* after a first call that failed: two keys are listed, in call order.
C11_Witness ==
  /\ pc = "idle"
  /\ calls = 2
  /\ TLFEphemeralPublicKeys = <<EPubKeyOf(1), EPubKeyOf(2)>>
  /\ WKeys = old.W
  /\ RKeys = old.R

\* The slices in kids are exactly the enumerations of uckb's device ids,
\* each id once.
IsKIDsOf(kids, uckb) ==
  /\ kids # {}
  /\ \A s \in kids :
       /\ Range(s) = DOMAIN uckb
       /\ Len(s) = Cardinality(DOMAIN uckb)

\* C15: GetTLFCryptPublicKeys(user) returns the device ids of the user's
\* writer per-user bundle, each once, with found = true when the user has a
\* writer per-user bundle; otherwise those of the user's reader per-user
\* bundle with found = true when the user has one; and (nil, false) exactly
\* when the user has neither.
C15_PublicKeysOfUser ==
  \A x \in Users :
    LET r == GetTLFCryptPublicKeys(x)
    IN /\ x \in DOMAIN WKeys => r.ok /\ IsKIDsOf(r.kids, WKeys[x])
       /\ x \notin DOMAIN WKeys /\ x \in DOMAIN RKeys =>
            r.ok /\ IsKIDsOf(r.kids, RKeys[x])
       /\ x \notin DOMAIN WKeys /\ x \notin DOMAIN RKeys =>
            ~r.ok /\ r.kids = {<<>>}
       /\ ~r.ok => x \notin DOMAIN WKeys /\ x \notin DOMAIN RKeys

\* C15's case: a user with two writer devices, listed in either order, and
\* a reader bundle with other devices; and a user who is a reader only.
C15_Witness ==
  /\ pc = "idle"
  /\ \E x \in Users :
       /\ x \in DOMAIN WKeys
       /\ x \in DOMAIN RKeys
       /\ DOMAIN WKeys[x] = KIDs
       /\ DOMAIN RKeys[x] # KIDs
       /\ Cardinality(GetTLFCryptPublicKeys(x).kids) = 2
  /\ \E y \in Users :
       /\ y \notin DOMAIN WKeys
       /\ y \in DOMAIN RKeys
       /\ GetTLFCryptPublicKeys(y).ok

\* C14: after any sequence of fillInDevices calls, failed calls and retries
\* included, every per-device record in the bundle has had the server half
\* its ServerHalfID names returned to the caller by some call.
C14_ServerHalfWasReturned ==
  pc = "idle" /\ calls > 0 =>
    \A x \in Users, k \in KIDs :
      /\ HasKey(WKeys, x, k) =>
           \E S \in Halves :
             /\ <<x, k, S>> \in returned
             /\ WKeys[x][k].ServerHalfID = GetTLFCryptKeyServerHalfID(x, k, S)
      /\ HasKey(RKeys, x, k) =>
           \E S \in Halves :
             /\ <<x, k, S>> \in returned
             /\ RKeys[x][k].ServerHalfID = GetTLFCryptKeyServerHalfID(x, k, S)

\* The current (or last) call created no per-device record.
NoRecordCreated == \A x \in Users, k \in KIDs : ~CreatedW(x, k) /\ ~CreatedR(x, k)

\* C16: a fillInDevices call that succeeds and creates no per-device record
\* leaves the results of GetTLFCryptKeyInfo, GetTLFCryptPublicKeys, IsWriter
\* and IsReader as they were before the call, for every user and device.
C16_NoRecordNoChange ==
  Succeeded /\ NoRecordCreated =>
    \A x \in Users :
      /\ GetTLFCryptPublicKeys(x) = GetTLFCryptPublicKeysOf(old, x)
      /\ \A k \in KIDs :
           /\ GetTLFCryptKeyInfo(x, k) = GetTLFCryptKeyInfoOf(old, x, k)
           /\ IsWriter(x, k) = HasKey(old.W, x, k)
           /\ IsReader(x, k) = HasKey(old.R, x, k)

\* C12: for the writer and the reader history alike, GetKeyGeneration is the
\* number of bundles in the history; on an empty history IsWriter and
\* IsReader are false for every user and device; on a non-empty one they are
\* the membership test of the most recently appended bundle and of no other.
C12_LatestGenerationOnly ==
  \A r \in Roots :
    LET tkg == Root(r).W
        trg == Root(r).R
    IN /\ WriterGetKeyGeneration(tkg) = Cardinality(DOMAIN tkg)
       /\ ReaderGetKeyGeneration(trg) = Cardinality(DOMAIN trg)
       /\ \A x \in Users, k \in KIDs :
            /\ WriterGenerationsIsWriter(heap, tkg, x, k) =
                 (/\ tkg # <<>>
                  /\ HasKey(KeysOf(heap, heap[tkg[Len(tkg)]].WKeys), x, k))
            /\ ReaderGenerationsIsReader(heap, trg, x, k) =
                 (/\ trg # <<>>
                  /\ HasKey(KeysOf(heap, heap[trg[Len(trg)]].RKeys), x, k))

\* C12's case: two generations; a device that is a writer in the first and
\* not in the second is no writer of the history, and a reader of the
\* second is a reader of the history.
C12_Witness ==
  /\ Len(orig.W) = 2
  /\ \E x \in Users, k \in KIDs :
       /\ IsWriterAt(heap, orig.W[1], x, k)
       /\ ~IsWriterAt(heap, orig.W[2], x, k)
       /\ ~WriterGenerationsIsWriter(heap, orig.W, x, k)
  /\ \E x \in Users :
       KeysOf(heap, heap[orig.R[2]].RKeys) = MapPut(EmptyMap, x, EmptyMap)

\* What the histories of root hold, pointers and maps followed.
Content(h, root) ==
  [W |-> [g \in 1..Len(root.W) |->
            [WKeys |-> KeysOf(h, h[root.W[g]].WKeys),
             TLFPublicKey |-> h[root.W[g]].TLFPublicKey,
             TLFEphemeralPublicKeys |-> h[root.W[g]].TLFEphemeralPublicKeys]],
   R |-> [g \in 1..Len(root.R) |->
            [RKeys |-> KeysOf(h, h[root.R[g]].RKeys)]]]

\* C13: a DeepCopy of a TLFKeyBundle or of the generation histories leaves
\* the original as it was and holds the same content; after it, no write
\* made through the copy (a new per-user bundle, a new per-device record, an
\* appended ephemeral key, a new generation) changes the content of the
\* original, and no write made through the original changes the copy's.
C13_CopyIsIndependent ==
  [][/\ copied /\ via' = "copy" =>
          Content(heap', orig') = Content(heap, orig)
     /\ copied /\ via' = "orig" =>
          Content(heap', copy') = Content(heap, copy)
     /\ ~copied /\ copied' =>
          /\ Content(heap', orig') = Content(heap, orig)
          /\ Len(copy'.W) = Len(copiedFrom')
          /\ Len(copy'.R) = Len(copiedFrom')
          /\ \A j \in DOMAIN copiedFrom' :
               /\ Content(heap', copy').W[j] =
                    Content(heap, orig).W[copiedFrom'[j]]
               /\ Content(heap', copy').R[j] =
                    Content(heap, orig).R[copiedFrom'[j]]]_vars

\* C13's case: a copy taken of a generation that had a per-user bundle; then
\* a record written through the copy and a key appended through the
\* original: the two differ in exactly those.
C13_Witness ==
  /\ copied
  /\ via = "orig"
  /\ \E j \in DOMAIN copiedFrom, x \in Users, k \in KIDs :
       LET c == Content(heap, copy).W[j]
           o == Content(heap, orig).W[copiedFrom[j]]
       IN /\ x \in DOMAIN o.WKeys
          /\ HasKey(c.WKeys, x, k)
          /\ ~HasKey(o.WKeys, x, k)
          /\ Len(o.TLFEphemeralPublicKeys) = 1
          /\ c.TLFEphemeralPublicKeys = <<>>

====
